---- MODULE Spec2Model ----
(***************************************************************************)
(* A model of rwc (src/src/main.rs): argument parsing (Config::new), the   *)
(* counting engine (count_text), number formatting (format_number), the    *)
(* presentation layer (print_counts) and the driver loop of main.          *)
(*                                                                         *)
(* Text is modelled as a sequence of characters, each character a          *)
(* one-character string; a printed line is such a sequence too.            *)
(***************************************************************************)
EXTENDS Integers, Sequences, FiniteSets, TLC

VARIABLES
    pc,            \* position of the program (or of the function under study)
    args,          \* env::args() without the program name
    config,        \* the Config built by Config::new
    idx,           \* position of main's for loop in config.files
    total_counts,  \* main's running total
    file_count,    \* main's file_count
    srcs,          \* the texts of the sources read so far, in order
    out,           \* standard output: one entry per print_counts call
    err,           \* standard error: one entry per diagnostic
    exit_code,     \* -1 while running, then the process exit code
    text,          \* count_text: its argument
    counts,        \* count_text: its result; print_counts: its argument
    label,         \* print_counts: its filename argument (<<>> when None)
    num,           \* format_number: its num argument
    human,         \* format_number: its human argument
    formatted      \* format_number: its result

vars == <<pc, args, config, idx, total_counts, file_count, srcs, out, err,
          exit_code, text, counts, label, num, human, formatted>>

(***************************************************************************)
(* Bounds of the model.                                                    *)
(***************************************************************************)
MaxTextLen == 4
MaxArgs == 3
MaxMainArgs == 3
MaxFileLen == 1
FmtWindow == 60

(***************************************************************************)
(* Characters.                                                             *)
(***************************************************************************)
NL == "\n"
CR == "\r"
SP == " "
TAB == "\t"
\* a two-byte character (U+00E9); the model never looks inside it
EAcute == "e'"

Alphabet == {"a", SP, NL, CR, EAcute}
FileAlphabet == {"a", NL}

\* char::len_utf8
len_utf8(c) == IF c = EAcute THEN 2 ELSE 1

\* char::is_whitespace, on the characters of the model
is_whitespace(c) == c \in {SP, NL, CR, TAB}

\* all sequences over S of length at most n
SeqsUpTo(S, n) == UNION {[1..k -> S] : k \in 0..n}

ZeroCounts == [bytes |-> 0, chars |-> 0, words |-> 0, lines |-> 0]

\* an Option is a sequence of no or one element
None == <<>>
Some(x) == <<x>>

(***************************************************************************)
(* count_text and the str primitives it uses.                              *)
(***************************************************************************)
\* str::len: the length in bytes
RECURSIVE str_len(_)
str_len(t) == IF t = <<>> THEN 0 ELSE len_utf8(Head(t)) + str_len(Tail(t))

\* str::chars().count()
chars_count(t) == Len(t)

\* a plausible slip: split('\n'), which yields an empty last piece after a
\* trailing newline
RECURSIVE split_plain_from(_, _, _)
split_plain_from(t, i, cur) ==
    IF i > Len(t)
    THEN (IF t = <<>> THEN <<>> ELSE <<cur>>)
    ELSE IF t[i] = NL
         THEN <<Append(cur, NL)>> \o split_plain_from(t, i + 1, <<>>)
         ELSE split_plain_from(t, i + 1, Append(cur, t[i]))

\* str::split_inclusive('\n'): pieces that end with the newline, and a last
\* piece without one when it is not empty
RECURSIVE split_inclusive_from(_, _, _)
split_inclusive_from(t, i, cur) ==
    IF i > Len(t)
    THEN (IF cur = <<>> THEN <<>> ELSE <<cur>>)
    ELSE IF t[i] = NL
         THEN <<Append(cur, NL)>> \o split_inclusive_from(t, i + 1, <<>>)
         ELSE split_inclusive_from(t, i + 1, Append(cur, t[i]))

split_inclusive(t) == split_inclusive_from(t, 1, <<>>)

\* one line of str::lines: the piece without its "\n" or "\r\n"
strip_line_ending(p) ==
    IF p # <<>> /\ p[Len(p)] = NL
    THEN LET q == SubSeq(p, 1, Len(p) - 1)
         IN IF q # <<>> /\ q[Len(q)] = CR THEN SubSeq(q, 1, Len(q) - 1) ELSE q
    ELSE p

\* str::lines
str_lines(t) ==
    LET ps == split_inclusive(t)
    IN [k \in 1..Len(ps) |-> strip_line_ending(ps[k])]

\* str::split_whitespace: the maximal runs of non-whitespace characters
RECURSIVE split_whitespace_from(_, _, _)
split_whitespace_from(t, i, cur) ==
    IF i > Len(t)
    THEN (IF cur = <<>> THEN <<>> ELSE <<cur>>)
    ELSE IF is_whitespace(t[i])
         THEN (IF cur = <<>> THEN <<>> ELSE <<cur>>)
              \o split_whitespace_from(t, i + 1, <<>>)
         ELSE split_whitespace_from(t, i + 1, Append(cur, t[i]))

split_whitespace(t) == split_whitespace_from(t, 1, <<>>)

\* .filter(|word| !word.is_empty()).count()
words_count(t) ==
    LET ws == split_whitespace(t)
    IN Cardinality({k \in 1..Len(ws) : ws[k] # <<>>})

count_text(t) ==
    [bytes |-> str_len(t),
     chars |-> chars_count(t),
     lines |-> Len(str_lines(t)),
     words |-> words_count(t)]

(***************************************************************************)
(* format_number and the formatting primitives it uses.                    *)
(***************************************************************************)
Digits == <<"0", "1", "2", "3", "4", "5", "6", "7", "8", "9">>

\* usize::to_string: the decimal digits, most significant first
RECURSIVE to_string(_)
to_string(n) ==
    IF n < 10
    THEN <<Digits[n + 1]>>
    ELSE Append(to_string(n \div 10), Digits[(n % 10) + 1])

\* 2^s mod 5
Pow2Mod5(s) == <<1, 2, 4, 3>>[(s % 4) + 1]

\* the largest e with 5 * 2^e <= N, for N >= 5
RECURSIVE Log2Fifth(_)
Log2Fifth(N) == IF N < 10 THEN 0 ELSE 1 + Log2Fifth(N \div 2)

\* n as f64 / unit lies exactly half way between two one-decimal values:
\* TRUE when {:.1} rounds it up.  The quotient is N/20 with N odd.  When 5
\* divides N the f64 is exact and the formatter rounds half to even; else the
\* f64 nearest to N/20 is above or below it according to the remainder of
\* N * 2^s by 5, s placing the quotient's 53-bit significand.
TieRoundsUp(N, t) ==
    IF N % 5 = 0
    THEN t % 2 = 1
    ELSE ((N % 5) * Pow2Mod5(52 - Log2Fifth(N))) % 5 >= 3

\* format!("{:.1}", n as f64 / unit), unit a power of ten >= 1000
FormatTenths(n, unit) ==
    LET tenth == unit \div 10
        half  == unit \div 20
        t     == n \div tenth
        r     == n % tenth
        up    == IF r > half THEN TRUE
                 ELSE IF r < half THEN FALSE
                 ELSE TieRoundsUp(n \div half, t)
        T     == IF up THEN t + 1 ELSE t
    IN to_string(T \div 10) \o <<".">> \o to_string(T % 10)

Kilo == 1000
Mega == 1000000
Giga == 1000000000

\* a plausible slip: the K threshold tested with > instead of >=
format_number_gt(n, h) ==
    IF ~h THEN to_string(n)
    ELSE IF n >= Giga THEN Append(FormatTenths(n, Giga), "G")
    ELSE IF n >= Mega THEN Append(FormatTenths(n, Mega), "M")
    ELSE IF n > Kilo THEN Append(FormatTenths(n, Kilo), "K")
    ELSE to_string(n)

format_number(n, h) ==
    IF ~h THEN to_string(n)
    ELSE IF n >= Giga THEN Append(FormatTenths(n, Giga), "G")
    ELSE IF n >= Mega THEN Append(FormatTenths(n, Mega), "M")
    ELSE IF n >= Kilo THEN Append(FormatTenths(n, Kilo), "K")
    ELSE to_string(n)


(***************************************************************************)
(* Config and Config::new.  An argument is a sequence of characters.       *)
(***************************************************************************)
OptL == <<"-", "l">>
OptLines == <<"-", "-", "l", "i", "n", "e", "s">>
OptW == <<"-", "w">>
OptWords == <<"-", "-", "w", "o", "r", "d", "s">>
OptC == <<"-", "c">>
OptBytes == <<"-", "-", "b", "y", "t", "e", "s">>
OptM == <<"-", "m">>
OptChars == <<"-", "-", "c", "h", "a", "r", "s">>
OptJson == <<"-", "-", "j", "s", "o", "n">>
OptH == <<"-", "h">>
OptHuman == <<"-", "-", "h", "u", "m", "a", "n">>
OptHelp == <<"-", "-", "h", "e", "l", "p">>
OptX == <<"-", "x">>
Dash == <<"-">>
File1 == <<"f", "1">>
File2 == <<"f", "2">>
TotalLabel == <<"t", "o", "t", "a", "l">>

CountOpts == {OptL, OptLines, OptW, OptWords, OptC, OptBytes, OptM, OptChars}
Tokens == CountOpts \cup {OptJson, OptH, OptHuman, OptHelp, OptX, Dash, File1, File2}
MainTokens == {OptM, OptJson, OptHelp, Dash, File1, File2}

\* Config::default()
DefaultConfig ==
    [show_bytes |-> FALSE, show_chars |-> FALSE, show_words |-> FALSE,
     show_lines |-> FALSE, show_json |-> FALSE, show_human |-> FALSE,
     files |-> <<>>]

\* str::starts_with, for one character
starts_with(s, c) == Len(s) > 0 /\ s[1] = c

\* the lines print_help writes
HelpText ==
    <<"rwc - A modern word counter",
      "",
      "USAGE:",
      "    rwc [OPTIONS] [FILES...]",
      "",
      "OPTIONS:",
      "    -l, --lines     Show line count",
      "    -w, --words     Show word count",
      "    -c, --bytes     Show byte count",
      "    -m, --chars     Show character count",
      "    --json          Output in JSON format",
      "    -h, --human     Human readable numbers (1.2K, 1.5M)",
      "    --help          Show this help message",
      "",
      "If no files are specified, reads from stdin.",
      "If no count options are specified, shows lines, words, and bytes.">>

\* the two lines written for an unknown option
UnknownOptionText(arg) ==
    << <<"rwc: unknown option '">> \o arg \o <<"'">>,
       <<"Try 'rwc --help' for more information.">> >>

\* the while loop of Config::new from argument i on: the configuration when
\* the loop ends (exit = -1), or the exit code of the process::exit it reaches
RECURSIVE parse_args(_, _, _)
parse_args(a, i, c) ==
    IF i > Len(a) THEN [exit |-> -1, config |-> c, arg |-> <<>>]
    ELSE IF a[i] \in {OptL, OptLines}
         THEN parse_args(a, i + 1, [c EXCEPT !.show_lines = TRUE])
    ELSE IF a[i] \in {OptW, OptWords}
         THEN parse_args(a, i + 1, [c EXCEPT !.show_words = TRUE])
    ELSE IF a[i] \in {OptC, OptBytes}
         THEN parse_args(a, i + 1, [c EXCEPT !.show_bytes = TRUE])
    ELSE IF a[i] \in {OptM, OptChars}
         THEN parse_args(a, i + 1, [c EXCEPT !.show_chars = TRUE])
    ELSE IF a[i] = OptJson
         THEN parse_args(a, i + 1, [c EXCEPT !.show_json = TRUE])
    ELSE IF a[i] \in {OptH, OptHuman}
         THEN parse_args(a, i + 1, [c EXCEPT !.show_human = TRUE])
    ELSE IF a[i] = OptHelp
         THEN [exit |-> 0, config |-> c, arg |-> a[i]]
    ELSE IF starts_with(a[i], "-")
         THEN [exit |-> 1, config |-> c, arg |-> a[i]]
    ELSE parse_args(a, i + 1, [c EXCEPT !.files = Append(@, a[i])])

\* the "wc default": lines, words and bytes
WithDefaultCounts(c) ==
    [c EXCEPT !.show_lines = TRUE, !.show_words = TRUE, !.show_bytes = TRUE]

\* a plausible slip: the default selects every count
Config_new_all(a) ==
    IF Len(a) = 0
    THEN [exit |-> -1, config |-> WithDefaultCounts(DefaultConfig), arg |-> <<>>]
    ELSE LET r == parse_args(a, 1, DefaultConfig)
             c == r.config
         IN IF r.exit = -1 /\ ~c.show_lines /\ ~c.show_words
               /\ ~c.show_bytes /\ ~c.show_chars
            THEN [r EXCEPT !.config = [WithDefaultCounts(c) EXCEPT !.show_chars = TRUE]]
            ELSE r

\* Config::new on the arguments a (args[1..] of the code)
Config_new(a) ==
    IF Len(a) = 0
    THEN [exit |-> -1, config |-> WithDefaultCounts(DefaultConfig), arg |-> <<>>]
    ELSE LET r == parse_args(a, 1, DefaultConfig)
             c == r.config
         IN IF r.exit = -1 /\ ~c.show_lines /\ ~c.show_words
               /\ ~c.show_bytes /\ ~c.show_chars
            THEN [r EXCEPT !.config = WithDefaultCounts(c)]
            ELSE r

\* main's call of Config::new: the configuration, or the exit of the process
\* with the help text or the unknown-option diagnostic
ConfigNew ==
    /\ pc = "start"
    /\ LET r == Config_new(args)
       IN /\ config' = r.config
          /\ pc' = IF r.exit = -1 THEN "main" ELSE "exit"
          /\ exit_code' = r.exit
          /\ out' = IF r.exit = 0
                    THEN Append(out, [call |-> "print_help", text |-> HelpText])
                    ELSE out
          /\ err' = IF r.exit = 1 THEN err \o UnknownOptionText(r.arg) ELSE err
    /\ UNCHANGED <<args, idx, total_counts, file_count, srcs, text, counts,
                   label, num, human, formatted>>

InitArgs ==
    /\ pc = "start"
    /\ args \in SeqsUpTo(Tokens, MaxArgs)
    /\ config = DefaultConfig
    /\ idx = 0 /\ total_counts = ZeroCounts /\ file_count = 0 /\ srcs = <<>>
    /\ out = <<>> /\ err = <<>> /\ exit_code = -1
    /\ text = <<>> /\ counts = ZeroCounts /\ label = None
    /\ num = 0 /\ human = FALSE /\ formatted = <<>>

NextArgs == ConfigNew

SpecArgs == InitArgs /\ [][NextArgs]_vars
(***************************************************************************)
(* print_counts.                                                           *)
(***************************************************************************)
Quote == "\""

KeyFile == <<"f", "i", "l", "e">>
KeyLines == <<"l", "i", "n", "e", "s">>
KeyWords == <<"w", "o", "r", "d", "s">>
KeyChars == <<"c", "h", "a", "r", "s">>
KeyBytes == <<"b", "y", "t", "e", "s">>

RECURSIVE Spaces(_)
Spaces(n) == IF n <= 0 THEN <<>> ELSE <<SP>> \o Spaces(n - 1)

\* format!("{:>8}", s): s when it has 8 characters or more, else s after the
\* spaces that bring it to 8
PadLeft8(s) == Spaces(8 - Len(s)) \o s

\* [String]::join
RECURSIVE join(_, _)
join(ss, sep) ==
    IF ss = <<>> THEN <<>>
    ELSE IF Len(ss) = 1 THEN ss[1]
    ELSE ss[1] \o sep \o join(Tail(ss), sep)

\* println!("  \"key\": {},", value) and, without the comma, the bytes line
JsonNumberLine(key, value, comma) ==
    <<SP, SP, Quote>> \o key \o <<Quote, ":", SP>> \o to_string(value)
    \o (IF comma THEN <<",">> ELSE <<>>) \o <<NL>>

\* println!("  \"file\": \"{}\",", name)
JsonFileLine(name) ==
    <<SP, SP, Quote>> \o KeyFile \o <<Quote, ":", SP, Quote>> \o name
    \o <<Quote, ",", NL>>

\* the JSON branch of print_counts
print_json(c, cfg, filename) ==
    <<"{", NL>>
    \o (IF filename # None THEN JsonFileLine(filename[1]) ELSE <<>>)
    \o (IF cfg.show_lines THEN JsonNumberLine(KeyLines, c.lines, TRUE) ELSE <<>>)
    \o (IF cfg.show_words THEN JsonNumberLine(KeyWords, c.words, TRUE) ELSE <<>>)
    \o (IF cfg.show_chars THEN JsonNumberLine(KeyChars, c.chars, TRUE) ELSE <<>>)
    \o (IF cfg.show_bytes THEN JsonNumberLine(KeyBytes, c.bytes, FALSE) ELSE <<>>)
    \o <<"}", NL>>

\* the output vector of the columnar branch
columns(c, cfg) ==
    (IF cfg.show_lines THEN <<format_number(c.lines, cfg.show_human)>> ELSE <<>>)
    \o (IF cfg.show_words THEN <<format_number(c.words, cfg.show_human)>> ELSE <<>>)
    \o (IF cfg.show_chars THEN <<format_number(c.chars, cfg.show_human)>> ELSE <<>>)
    \o (IF cfg.show_bytes THEN <<format_number(c.bytes, cfg.show_human)>> ELSE <<>>)

\* the columnar branch of print_counts
print_columns(c, cfg, filename) ==
    PadLeft8(join(columns(c, cfg), PadLeft8(<<>>)))
    \o (IF filename # None THEN <<SP>> \o filename[1] \o <<NL>> ELSE <<NL>>)

\* a plausible slip: the JSON branch prints every count, selected or not
print_counts_all(c, cfg, filename) ==
    IF cfg.show_json
    THEN print_json(c, [cfg EXCEPT !.show_lines = TRUE, !.show_words = TRUE,
                                   !.show_chars = TRUE, !.show_bytes = TRUE],
                    filename)
    ELSE print_columns(c, cfg, filename)

\* the characters print_counts writes to standard output
print_counts(c, cfg, filename) ==
    IF cfg.show_json
    THEN print_json(c, cfg, filename)
    ELSE print_columns(c, cfg, filename)


(***************************************************************************)
(* count_reader, process_file and main.  What a source holds, and whether  *)
(* it can be opened and read, is an input of the step that reads it.       *)
(***************************************************************************)
\* the texts a source can hold: the short texts over FileAlphabet, and one
\* text with a two-byte character
FileTexts == SeqsUpTo(FileAlphabet, MaxFileLen) \cup {<<EAcute>>}

\* the outcomes of opening a file and reading it to a string
Ok(t) == [ok |-> TRUE, text |-> t, kind |-> "ok"]
OpenError == [ok |-> FALSE, text |-> <<>>, kind |-> "open"]
ReadError == [ok |-> FALSE, text |-> <<>>, kind |-> "read"]
StdinResults == {Ok(t) : t \in FileTexts} \cup {ReadError}
FileResults == StdinResults \cup {OpenError}

\* the io::Error's own message, which the model does not look into
IoErrorText == <<"<io error>">>

\* count_reader: the Counts of the text read, or the error
count_reader(r) == IF r.ok THEN [ok |-> TRUE, counts |-> count_text(r.text)]
                   ELSE [ok |-> FALSE, counts |-> ZeroCounts]

\* the message of the error process_file returns
process_file_error(filename, r) ==
    IF filename # Dash /\ r.kind = "open"
    THEN <<"rwc: ">> \o filename \o <<": ">> \o IoErrorText
    ELSE IoErrorText

\* the outcomes process_file can have on filename
process_file_results(filename) ==
    IF filename = Dash THEN StdinResults ELSE FileResults

\* a plausible slip: the characters are added up from the byte counts
add_counts_bytes(a, b) ==
    [bytes |-> a.bytes + b.bytes, chars |-> a.chars + b.bytes,
     words |-> a.words + b.words, lines |-> a.lines + b.lines]

\* main's "Add to totals": Counts += Counts, field by field
add_counts(a, b) ==
    [bytes |-> a.bytes + b.bytes, chars |-> a.chars + b.chars,
     words |-> a.words + b.words, lines |-> a.lines + b.lines]

\* one print_counts call, as standard output records it
Printed(c, cfg, filename) ==
    [call |-> "print_counts", label |-> filename, counts |-> c,
     text |-> print_counts(c, cfg, filename)]

\* main with an empty file list: standard input is counted and printed
MainStdin ==
    /\ pc = "main"
    /\ config.files = <<>>
    /\ \E r \in StdinResults :
          LET res == count_reader(r)
          IN /\ out' = IF res.ok THEN Append(out, Printed(res.counts, config, None))
                       ELSE out
             /\ err' = IF res.ok THEN err
                       ELSE Append(err, <<"rwc: ">> \o IoErrorText)
             /\ srcs' = IF res.ok THEN Append(srcs, r.text) ELSE srcs
             /\ pc' = IF res.ok THEN "done" ELSE "exit"
             /\ exit_code' = IF res.ok THEN 0 ELSE 1
    /\ UNCHANGED <<args, config, idx, total_counts, file_count, text, counts,
                   label, num, human, formatted>>

\* a plausible slip: an error skips the file and the loop goes on
MainLoopSkipping ==
    /\ pc = "main"
    /\ config.files # <<>>
    /\ idx < Len(config.files)
    /\ LET filename == config.files[idx + 1]
       IN \E r \in process_file_results(filename) :
             LET res == count_reader(r)
             IN /\ out' = IF res.ok
                          THEN Append(out, Printed(res.counts, config, Some(filename)))
                          ELSE out
                /\ total_counts' = IF res.ok THEN add_counts(total_counts, res.counts)
                                   ELSE total_counts
                /\ file_count' = IF res.ok THEN file_count + 1 ELSE file_count
                /\ srcs' = IF res.ok THEN Append(srcs, r.text) ELSE srcs
                /\ err' = IF res.ok THEN err
                          ELSE Append(err, process_file_error(filename, r))
                /\ idx' = idx + 1
                /\ pc' = "main"
                /\ exit_code' = exit_code
    /\ UNCHANGED <<args, config, text, counts, label, num, human, formatted>>

\* one iteration of main's for loop: the next file is processed, printed
\* and added to the total, or its error ends the process with code 1
MainLoop ==
    /\ pc = "main"
    /\ config.files # <<>>
    /\ idx < Len(config.files)
    /\ LET filename == config.files[idx + 1]
       IN \E r \in process_file_results(filename) :
             LET res == count_reader(r)
             IN /\ out' = IF res.ok
                          THEN Append(out, Printed(res.counts, config, Some(filename)))
                          ELSE out
                /\ total_counts' = IF res.ok THEN add_counts(total_counts, res.counts)
                                   ELSE total_counts
                /\ file_count' = IF res.ok THEN file_count + 1 ELSE file_count
                /\ srcs' = IF res.ok THEN Append(srcs, r.text) ELSE srcs
                /\ err' = IF res.ok THEN err
                          ELSE Append(err, process_file_error(filename, r))
                /\ idx' = IF res.ok THEN idx + 1 ELSE idx
                /\ pc' = IF res.ok THEN "main" ELSE "exit"
                /\ exit_code' = IF res.ok THEN exit_code ELSE 1
    /\ UNCHANGED <<args, config, text, counts, label, num, human, formatted>>

\* a plausible slip: the total is printed as soon as one file was processed
MainTotalAlways ==
    /\ pc = "main"
    /\ config.files # <<>>
    /\ idx = Len(config.files)
    /\ out' = IF file_count > 0
              THEN Append(out, Printed(total_counts, config, Some(TotalLabel)))
              ELSE out
    /\ pc' = "done"
    /\ exit_code' = 0
    /\ UNCHANGED <<args, config, idx, total_counts, file_count, srcs, err, text,
                   counts, label, num, human, formatted>>

\* the end of main after the loop: the total when several files were
\* processed, then the return
MainTotal ==
    /\ pc = "main"
    /\ config.files # <<>>
    /\ idx = Len(config.files)
    /\ out' = IF file_count > 1
              THEN Append(out, Printed(total_counts, config, Some(TotalLabel)))
              ELSE out
    /\ pc' = "done"
    /\ exit_code' = 0
    /\ UNCHANGED <<args, config, idx, total_counts, file_count, srcs, err, text,
                   counts, label, num, human, formatted>>

Init ==
    /\ pc = "start"
    /\ args \in SeqsUpTo(MainTokens, MaxMainArgs)
    /\ config = DefaultConfig
    /\ idx = 0 /\ total_counts = ZeroCounts /\ file_count = 0 /\ srcs = <<>>
    /\ out = <<>> /\ err = <<>> /\ exit_code = -1
    /\ text = <<>> /\ counts = ZeroCounts /\ label = None
    /\ num = 0 /\ human = FALSE /\ formatted = <<>>

Next == ConfigNew \/ MainStdin \/ MainLoop \/ MainTotal

Spec == Init /\ [][Next]_vars

(***************************************************************************)
(* count_text and print_counts on their own, over bounded inputs.          *)
(***************************************************************************)
Texts == SeqsUpTo(Alphabet, MaxTextLen)

InitCount ==
    /\ pc = "count_text"
    /\ text \in Texts
    /\ counts = ZeroCounts
    /\ args = <<>> /\ config = DefaultConfig /\ idx = 0
    /\ total_counts = ZeroCounts /\ file_count = 0 /\ srcs = <<>>
    /\ out = <<>> /\ err = <<>> /\ exit_code = -1 /\ label = None
    /\ num = 0 /\ human = FALSE /\ formatted = <<>>

CountText ==
    /\ pc = "count_text"
    /\ counts' = count_text(text)
    /\ pc' = "counted"
    /\ UNCHANGED <<args, config, idx, total_counts, file_count, srcs, out, err,
                   exit_code, text, label, num, human, formatted>>

NextCount == CountText

SpecCount == InitCount /\ [][NextCount]_vars

\* the values of a count print_counts is studied on
CountVals == {0, 7, 1500, 123456789}

\* Counts as count_text and the totals can make them: no more characters
\* than bytes, no more words or lines than characters
PrintableCounts ==
    {c \in [bytes : CountVals, chars : CountVals, words : CountVals,
            lines : CountVals] :
        c.chars <= c.bytes /\ c.words <= c.chars /\ c.lines <= c.chars}

\* the configurations Config::new returns, without their file list
PrintConfigs ==
    {c \in [show_bytes : BOOLEAN, show_chars : BOOLEAN, show_words : BOOLEAN,
            show_lines : BOOLEAN, show_json : BOOLEAN, show_human : BOOLEAN,
            files : {<<>>}] :
        c.show_bytes \/ c.show_chars \/ c.show_words \/ c.show_lines}

InitPrint ==
    /\ pc = "print_counts"
    /\ config \in PrintConfigs
    /\ counts \in PrintableCounts
    /\ label \in {None, Some(File1), Some(TotalLabel)}
    /\ out = <<>>
    /\ args = <<>> /\ idx = 0 /\ total_counts = ZeroCounts /\ file_count = 0
    /\ srcs = <<>> /\ err = <<>> /\ exit_code = -1 /\ text = <<>>
    /\ num = 0 /\ human = FALSE /\ formatted = <<>>

PrintCounts ==
    /\ pc = "print_counts"
    /\ out' = Append(out, Printed(counts, config, label))
    /\ pc' = "printed"
    /\ UNCHANGED <<args, config, idx, total_counts, file_count, srcs, err,
                   exit_code, text, counts, label, num, human, formatted>>

NextPrint == PrintCounts

SpecPrint == InitPrint /\ [][NextPrint]_vars

\* the values format_number is studied on: windows around the thresholds and
\* around the values whose rounding carries
FmtCenters == {FmtWindow, Kilo, 999950, Mega, 1500000, 999950000, Giga, 2000000000}
Nums == UNION {(c - FmtWindow)..(c + FmtWindow) : c \in FmtCenters}

InitFmt ==
    /\ pc = "format_number"
    /\ num \in Nums
    /\ human \in BOOLEAN
    /\ formatted = <<>>
    /\ args = <<>> /\ config = DefaultConfig /\ idx = 0 /\ total_counts = ZeroCounts
    /\ file_count = 0 /\ srcs = <<>> /\ out = <<>> /\ err = <<>>
    /\ exit_code = -1 /\ text = <<>> /\ counts = ZeroCounts /\ label = None

FormatNumber ==
    /\ pc = "format_number"
    /\ formatted' = format_number(num, human)
    /\ pc' = "formatted"
    /\ UNCHANGED <<args, config, idx, total_counts, file_count, srcs, out, err,
                   exit_code, text, counts, label, num, human>>

NextFmt == FormatNumber

SpecFmt == InitFmt /\ [][NextFmt]_vars

(***************************************************************************)
(* Helpers of the properties.                                              *)
(***************************************************************************)
RECURSIVE Concat(_)
Concat(ss) == IF ss = <<>> THEN <<>> ELSE Head(ss) \o Concat(Tail(ss))

MinOf(S) == CHOOSE m \in S : \A x \in S : m <= x

IsDigit(c) == \E d \in 1..10 : Digits[d] = c

DigitValue(c) == (CHOOSE d \in 1..10 : Digits[d] = c) - 1

RECURSIVE ParseDec(_)
ParseDec(s) ==
    IF s = <<>> THEN 0
    ELSE 10 * ParseDec(SubSeq(s, 1, Len(s) - 1)) + DigitValue(s[Len(s)])

\* s is the plain decimal numeral of n
IsPlainInteger(s, n) ==
    /\ s # <<>>
    /\ \A i \in 1..Len(s) : IsDigit(s[i])
    /\ (Len(s) > 1 => s[1] # "0")
    /\ ParseDec(s) = n

\* s is n / unit with exactly one decimal digit, rounded to the nearest
\* tenth, followed by the suffix
IsTenthsWithSuffix(s, n, unit, suffix) ==
    /\ Len(s) >= 4
    /\ s[Len(s)] = suffix
    /\ IsDigit(s[Len(s) - 1])
    /\ s[Len(s) - 2] = "."
    /\ LET whole == SubSeq(s, 1, Len(s) - 3)
       IN /\ \A i \in 1..Len(whole) : IsDigit(whole[i])
          /\ (Len(whole) > 1 => whole[1] # "0")
          /\ LET T == 10 * ParseDec(whole) + DigitValue(s[Len(s) - 1])
                 d == T * (unit \div 10) - n
             IN d <= unit \div 20 /\ -d <= unit \div 20

\* the sources joined end to start make one word of two at boundary k
JoinsWord(ss, k) ==
    LET before == Concat(SubSeq(ss, 1, k))
        after  == ss[k + 1]
    IN /\ before # <<>> /\ ~is_whitespace(before[Len(before)])
       /\ after # <<>> /\ ~is_whitespace(after[1])

JoinedWords(ss) == Cardinality({k \in 1..(Len(ss) - 1) : JoinsWord(ss, k)})

\* main's loop has processed at least one source and none has failed
LoopRan == pc \in {"main", "done"} /\ config.files # <<>> /\ idx >= 1

\* some argument is one of opts
Named(opts) == \E i \in 1..Len(args) : args[i] \in opts

\* the lines of a printed JSON object between its braces
MemberLines(t) ==
    LET ls == split_inclusive(t) IN SubSeq(ls, 2, Len(ls) - 1)

\* the position of the first c in s at or after from, 0 when there is none
FirstIndex(s, c, from) ==
    LET S == {i \in from..Len(s) : s[i] = c}
    IN IF S = {} THEN 0 ELSE MinOf(S)

\* the key of a member line: what stands between its first two quotes
KeyOf(l) ==
    LET q1 == FirstIndex(l, Quote, 1)
        q2 == FirstIndex(l, Quote, q1 + 1)
    IN SubSeq(l, q1 + 1, q2 - 1)

EndsWithComma(l) == Len(l) >= 2 /\ l[Len(l)] = NL /\ l[Len(l) - 1] = ","

\* the value of a member line: what follows the key's colon and space, up
\* to the comma or the end of the line
ValueOf(l) ==
    LET q1 == FirstIndex(l, Quote, 1)
        q2 == FirstIndex(l, Quote, q1 + 1)
    IN SubSeq(l, q2 + 3, IF EndsWithComma(l) THEN Len(l) - 2 ELSE Len(l) - 1)

\* the keys a configuration and a label select, in the fixed order
SelectedKeys(cfg, lab) ==
    (IF lab # None THEN <<KeyFile>> ELSE <<>>)
    \o (IF cfg.show_lines THEN <<KeyLines>> ELSE <<>>)
    \o (IF cfg.show_words THEN <<KeyWords>> ELSE <<>>)
    \o (IF cfg.show_chars THEN <<KeyChars>> ELSE <<>>)
    \o (IF cfg.show_bytes THEN <<KeyBytes>> ELSE <<>>)

\* the i-th source's line, as main prints it
IsSourceLine(i) ==
    /\ out[i].call = "print_counts"
    /\ out[i].label = Some(config.files[i])
    /\ out[i].counts = count_text(srcs[i])
    /\ out[i].text = print_counts(count_text(srcs[i]), config, Some(config.files[i]))

\* the sum of a field over the first n printed lines
RECURSIVE SumPrinted(_, _)
SumPrinted(f, n) ==
    IF n = 0 THEN 0 ELSE SumPrinted(f, n - 1) + out[n].counts[f]

(***************************************************************************)
(* C1.  As claimed: after main's loop has processed sources S1..Sn, all    *)
(* read successfully, the total's bytes, chars and words are those of      *)
(* count_text on the concatenation S1 ... Sn.                              *)
(***************************************************************************)
C1_TotalEqualsConcatenation ==
    LoopRan =>
        LET whole == count_text(Concat(srcs))
        IN /\ total_counts.bytes = whole.bytes
           /\ total_counts.chars = whole.chars
           /\ total_counts.words = whole.words

(***************************************************************************)
(* C1, amended.  The total's bytes and chars are those of the              *)
(* concatenation; its words are those of the concatenation plus the number *)
(* of source boundaries at which the concatenation joins two words.        *)
(***************************************************************************)
C1_TotalVersusConcatenation ==
    LoopRan =>
        LET whole == count_text(Concat(srcs))
        IN /\ total_counts.bytes = whole.bytes
           /\ total_counts.chars = whole.chars
           /\ total_counts.words = whole.words + JoinedWords(srcs)

C1_Witness ==
    /\ pc = "done" /\ Len(srcs) >= 3 /\ idx = Len(srcs)
    /\ JoinedWords(srcs) = 1
    /\ total_counts.bytes > total_counts.chars

(***************************************************************************)
(* C2.  While the loop runs only the lines of the sources processed so far *)
(* are printed, in command-line order.  When a run ends with every source  *)
(* read, the output is those lines followed, exactly when more than one    *)
(* source was processed, by one line labelled "total" whose four fields    *)
(* are the sums over the sources' lines; standard input alone prints one   *)
(* unlabelled line and no total.                                           *)
(***************************************************************************)
C2_TotalLine ==
    LET n == Len(config.files)
    IN /\ (pc = "main" /\ n > 0) =>
              /\ Len(out) = idx
              /\ \A i \in 1..idx : IsSourceLine(i)
       /\ (pc = "done" /\ n = 0) =>
              /\ Len(out) = 1
              /\ out[1].label = None
              /\ out[1].counts = count_text(srcs[1])
       /\ (pc = "done" /\ n > 0) =>
              /\ Len(out) = (IF n > 1 THEN n + 1 ELSE n)
              /\ \A i \in 1..n : IsSourceLine(i)
              /\ n > 1 =>
                    /\ out[n + 1].label = Some(TotalLabel)
                    /\ \A f \in {"bytes", "chars", "words", "lines"} :
                          out[n + 1].counts[f] = SumPrinted(f, n)
                    /\ out[n + 1].text =
                          print_counts(out[n + 1].counts, config, Some(TotalLabel))

C2_Witness ==
    /\ pc = "done" /\ Len(config.files) = 2 /\ Len(out) = 3
    /\ out[3].label = Some(TotalLabel)
    /\ out[3].counts.lines = 2 /\ out[1].counts.lines = 1

(***************************************************************************)
(* C3.  Once a diagnostic is written the process has exited with code 1 at *)
(* the failing source: with k-1 sources processed before it, exactly their *)
(* k-1 lines are on standard output, no later source was read and no total *)
(* line was printed.                                                       *)
(***************************************************************************)
C3_ErrorStopsRun ==
    err # <<>> =>
        /\ pc = "exit"
        /\ exit_code = 1
        /\ Len(srcs) = idx
        /\ Len(out) = idx
        /\ \A i \in 1..idx : IsSourceLine(i)

C3_Witness ==
    /\ pc = "exit" /\ err # <<>>
    /\ idx = 1 /\ Len(config.files) = 3 /\ Len(out) = 1

(***************************************************************************)
(* C4.  As claimed: when the arguments hold a "-" (and neither --help nor  *)
(* an unknown option), Config::new returns and the file list holds the     *)
(* "-" at its position among the sources.                                  *)
(***************************************************************************)
C4_DashIsSource ==
    (pc # "start" /\ Named({Dash}) /\ ~Named({OptHelp, OptX})) =>
        /\ pc = "main"
        /\ config.files = SelectSeq(args, LAMBDA a : a \in {Dash, File1, File2})

(***************************************************************************)
(* C5.  When Config::new returns, at least one display flag is set; with   *)
(* no count option among the arguments exactly lines, words and bytes are  *)
(* set; otherwise exactly the flags the arguments name are set.            *)
(***************************************************************************)
C5_DisplayFlags ==
    pc = "main" =>
        /\ config.show_lines \/ config.show_words \/ config.show_bytes
           \/ config.show_chars
        /\ IF ~Named(CountOpts)
           THEN /\ config.show_lines /\ config.show_words /\ config.show_bytes
                /\ ~config.show_chars
           ELSE /\ config.show_lines = Named({OptL, OptLines})
                /\ config.show_words = Named({OptW, OptWords})
                /\ config.show_bytes = Named({OptC, OptBytes})
                /\ config.show_chars = Named({OptM, OptChars})

C5_Witness ==
    /\ pc = "main" /\ ~Named(CountOpts)
    /\ Named({OptJson}) /\ Named({OptH}) /\ Named({File1})
    /\ config.show_lines /\ ~config.show_chars

(***************************************************************************)
(* C6.  As claimed: in columnar mode the output is, for each selected      *)
(* field in the order lines, words, chars, bytes, the formatted number     *)
(* right-aligned in its own 8-character field, then a space and the label  *)
(* when there is one, then the newline.                                    *)
(***************************************************************************)
C6_ColumnsOfEight ==
    (pc = "printed" /\ ~config.show_json) =>
        LET cols == columns(counts, config)
        IN out[1].text =
              Concat([k \in 1..Len(cols) |-> PadLeft8(cols[k])])
              \o (IF label # None THEN <<SP>> \o label[1] ELSE <<>>)
              \o <<NL>>

(***************************************************************************)
(* C7.  In JSON mode the keys printed are exactly the selected fields in   *)
(* the order file, lines, words, chars, bytes, the file key present        *)
(* exactly when a label is given, and every count is printed as a plain    *)
(* integer whatever the human flag.                                        *)
(***************************************************************************)
C7_JsonKeys ==
    (pc = "printed" /\ config.show_json) =>
        LET ms == MemberLines(out[1].text)
        IN /\ [k \in 1..Len(ms) |-> KeyOf(ms[k])] = SelectedKeys(config, label)
           /\ \A k \in 1..Len(ms) :
                 /\ KeyOf(ms[k]) = KeyFile =>
                       ValueOf(ms[k]) = <<Quote>> \o label[1] \o <<Quote>>
                 /\ KeyOf(ms[k]) = KeyLines => IsPlainInteger(ValueOf(ms[k]), counts.lines)
                 /\ KeyOf(ms[k]) = KeyWords => IsPlainInteger(ValueOf(ms[k]), counts.words)
                 /\ KeyOf(ms[k]) = KeyChars => IsPlainInteger(ValueOf(ms[k]), counts.chars)
                 /\ KeyOf(ms[k]) = KeyBytes => IsPlainInteger(ValueOf(ms[k]), counts.bytes)

C7_Witness ==
    /\ pc = "printed" /\ config.show_json /\ config.show_human
    /\ config.show_lines /\ config.show_words
    /\ ~config.show_bytes /\ ~config.show_chars
    /\ label = Some(File1) /\ counts.lines = 1500
    /\ Len(MemberLines(out[1].text)) = 3

(***************************************************************************)
(* C8.  count_text(t).lines is the number of newline characters of t, plus *)
(* one when t is not empty and does not end in a newline.                  *)
(***************************************************************************)
C8_Lines ==
    pc = "counted" =>
        counts.lines =
            Cardinality({i \in 1..Len(text) : text[i] = NL})
            + (IF text # <<>> /\ text[Len(text)] # NL THEN 1 ELSE 0)

C8_Witness ==
    /\ pc = "counted" /\ Len(text) = 4
    /\ text[2] = NL /\ text[4] = NL /\ text[3] = CR
    /\ counts.lines = 2

(***************************************************************************)
(* C9.  format_number without human is the plain decimal numeral.  With    *)
(* human the threshold alone chooses the form: the plain numeral below     *)
(* 1000, then n/1000 with one decimal and K, n/10^6 with one decimal and   *)
(* M, n/10^9 with one decimal and G; 999, 1000, 1500000 and 2000000000     *)
(* give "999", "1.0K", "1.5M" and "2.0G".                                  *)
(***************************************************************************)
C9_FormatNumber ==
    pc = "formatted" =>
        /\ IF ~human \/ num < Kilo THEN IsPlainInteger(formatted, num)
           ELSE IF num < Mega THEN IsTenthsWithSuffix(formatted, num, Kilo, "K")
           ELSE IF num < Giga THEN IsTenthsWithSuffix(formatted, num, Mega, "M")
           ELSE IsTenthsWithSuffix(formatted, num, Giga, "G")
        /\ (human /\ num = 999) => formatted = <<"9", "9", "9">>
        /\ (human /\ num = 1000) => formatted = <<"1", ".", "0", "K">>
        /\ (human /\ num = 1500000) => formatted = <<"1", ".", "5", "M">>
        /\ (human /\ num = 2000000000) => formatted = <<"2", ".", "0", "G">>

C9_Witness ==
    /\ pc = "formatted" /\ human /\ num = 1000
    /\ formatted = <<"1", ".", "0", "K">>

(***************************************************************************)
(* C10.  As claimed: what print_counts writes in JSON mode opens with a    *)
(* "{" line and closes with a "}" line, every member line but the last     *)
(* ends with a comma and the last member line does not.                    *)
(***************************************************************************)
C10_WellFormedJson ==
    (pc = "printed" /\ config.show_json) =>
        LET ls == split_inclusive(out[1].text)
            n  == Len(ls)
        IN /\ n >= 3
           /\ ls[1] = <<"{", NL>>
           /\ ls[n] = <<"}", NL>>
           /\ \A k \in 2..(n - 1) : EndsWithComma(ls[k]) <=> (k < n - 1)

====
